---------------------------- MODULE Spec2Model ----------------------------
(***************************************************************************)
(* jquery.tappable.js: the tappable plugin, its option parsing, the four   *)
(* touch-path listeners, the fallback click listener and the deferred      *)
(* touchDelay action, as a state machine over a small page.                *)
(***************************************************************************)
EXTENDS Integers, Sequences, FiniteSets, Bags, TLC

(***************************************************************************)
(* Bounds of the model.                                                    *)
(***************************************************************************)
\* the non-zero touchDelay a caller passes (stands for "around 150" ms), in ticks
LongDelay == 1
\* how many times tappable is called on the page
MaxBindings == 1
\* how many deferred actions may be pending at once
MaxTimers == 2
\* how many times tappable is called on one element of the shared page
MaxShared == 2

(***************************************************************************)
(* The page: a container with one child matching a.test and one that does  *)
(* not, and a second container of the same shape.                          *)
(***************************************************************************)
Elements == {"box", "a", "s", "box2", "a2", "s2"}

Root == "document"

Parent(e) ==
    CASE e = "a" -> "box"
      [] e = "s" -> "box"
      [] e = "a2" -> "box2"
      [] e = "s2" -> "box2"
      [] OTHER -> Root

\* the element and its ancestors, innermost first: the path an event bubbles along
RECURSIVE Path(_)
Path(e) == IF e = Root THEN << >> ELSE <<e>> \o Path(Parent(e))

\* does element e match the css selector sel
Matches(e, sel) == sel = "a.test" /\ e \in {"a", "a2"}

(***************************************************************************)
(* JavaScript values, as far as the plugin looks at them.                  *)
(***************************************************************************)
Undef == [t |-> "undefined"]
Null == [t |-> "object", null |-> TRUE]
Bool(b) == [t |-> "boolean", b |-> b]
Num(n) == [t |-> "number", n |-> n]
Str(s) == [t |-> "string", s |-> s]
Fn(name) == [t |-> "function", fn |-> name]
Obj(fields) == [t |-> "object", o |-> fields]

Typeof(v) == v.t

Truthy(v) ==
    CASE v.t = "undefined" -> FALSE
      [] v.t = "boolean" -> v.b
      [] v.t = "number" -> v.n # 0
      [] v.t = "string" -> v.s # ""
      [] v.t = "function" -> TRUE
      [] OTHER -> v # Null

\* options.name: undefined when the object has no such property
Prop(options, name) ==
    IF name \in DOMAIN options.o THEN options.o[name] ELSE Undef


(***************************************************************************)
(* What callers pass to tappable.                                          *)
(***************************************************************************)
\* the options values the page's scripts call tappable with
OptionInputs ==
    { Fn("f"),
      Obj([callback |-> Fn("f")]),
      Obj([callback |-> Fn("f"), touchDelay |-> Num(LongDelay),
           onlyIf |-> Fn("isEnabled")]),
      Obj([callback |-> Fn("f"), cancelOnMove |-> Bool(FALSE),
           touchDelay |-> Num(LongDelay), onlyIf |-> Fn("isEnabled")]),
      Obj([callback |-> Fn("f"), selector |-> Str("a.test"),
           touchDelay |-> Num(LongDelay)]),
      Obj([callback |-> Str("f")]),
      Undef,
      Null }

\* the collections tappable is called on (each a single element here)
BoundElements == {"box"}

EventTypes == {"touchstart", "touchmove", "touchend", "click"}

(***************************************************************************)
(* $.fn.tappable: the closure variables after the switch on typeof options *)
(***************************************************************************)
Defaults ==
    [ cancelOnMove |-> Bool(TRUE),
      onlyIf       |-> Fn("always"),
      touchDelay   |-> Num(0),
      callback     |-> Undef,
      selector     |-> Undef ]

\* reading options.callback throws a TypeError when options is null
ParseThrows(options) == Typeof(options) = "object" /\ options = Null

Override(cur, options, name) ==
    IF Typeof(Prop(options, name)) # "undefined" THEN Prop(options, name) ELSE cur

\* fault: case 'function' lacks its break and falls into case 'object', where
\* callback becomes the (absent) callback property of the function
ParseOptions_fallsThrough(options) ==
    CASE Typeof(options) = "function" -> Defaults
      [] Typeof(options) = "object" ->
            [ cancelOnMove |-> Override(Defaults.cancelOnMove, options, "cancelOnMove"),
              onlyIf       |-> Override(Defaults.onlyIf, options, "onlyIf"),
              touchDelay   |-> Override(Defaults.touchDelay, options, "touchDelay"),
              callback     |-> Prop(options, "callback"),
              selector     |-> Override(Defaults.selector, options, "selector") ]
      [] OTHER -> Defaults

ParseOptions(options) ==
    CASE Typeof(options) = "function" ->
            [Defaults EXCEPT !.callback = options]
      [] Typeof(options) = "object" ->
            [ cancelOnMove |-> Override(Defaults.cancelOnMove, options, "cancelOnMove"),
              onlyIf       |-> Override(Defaults.onlyIf, options, "onlyIf"),
              touchDelay   |-> Override(Defaults.touchDelay, options, "touchDelay"),
              callback     |-> Prop(options, "callback"),
              selector     |-> Override(Defaults.selector, options, "selector") ]
      [] OTHER -> Defaults

\* fault: the touchmove listener is registered whatever cancelOnMove is
Listeners_moveAlways(c, touch) ==
    IF touch
    THEN {"touchstart", "touchend", "preventClick", "touchmove"}
    ELSE IF Typeof(c.callback) = "function" THEN {"fallbackClick"} ELSE {}

\* the listeners one call of tappable registers, by the closure and the runtime
Listeners(c, touch) ==
    IF touch
    THEN {"touchstart", "touchend", "preventClick"}
         \cup (IF Truthy(c.cancelOnMove) THEN {"touchmove"} ELSE {})
    ELSE IF Typeof(c.callback) = "function" THEN {"fallbackClick"} ELSE {}

\* the event type a listener is registered for
EventOf(l) ==
    CASE l = "preventClick" -> "click"
      [] l = "fallbackClick" -> "click"
      [] OTHER -> l

\* one call of tappable on element e: its closure and what it registered
Binding(e, options, touch) ==
    [ bound     |-> e,
      c         |-> ParseOptions(options),
      listeners |-> Listeners(ParseOptions(options), touch) ]

\* onlyIf(el): the default returns true, the caller's reads a flag of the page
CallOnlyIf(c, el, en) ==
    IF c.onlyIf = Fn("always") THEN TRUE ELSE en

\* the delay window.setTimeout waits for: a negative or absent one counts as 0
DelayOf(v) == IF v.t = "number" /\ v.n > 0 THEN v.n ELSE 0

(***************************************************************************)
(* State.                                                                  *)
(***************************************************************************)
VARIABLES
    touchSupported, \* ('ontouchstart' in window), evaluated once at load
    bindings,       \* the calls of tappable made so far, in order
    classes,        \* element -> its css classes
    enabled,        \* the flag of the page the caller's onlyIf returns
    timers,         \* bag of pending window.setTimeout actions
    last,           \* observation: what the last step invoked; the click or call of tappable it was
    gest            \* observation: the touch sequence in progress or just ended

vars == <<touchSupported, bindings, classes, enabled, timers, last, gest>>

Flags == {"touch-started", "touched"}

\* the elements events are dispatched on
Targets == {"a", "s"}

\* (tapped: the invocations made by the tap a click follows)
Quiet == [ev |-> "none", target |-> "none", calls |-> << >>,
          prevented |-> FALSE, threw |-> FALSE, tapped |-> 0]

IdleGest == [phase |-> "idle", target |-> "none", en |-> FALSE,
             applied |-> {}, ran |-> {}, calls |-> << >>, moved |-> FALSE,
             moveChanged |-> {}, threw |-> FALSE]

(***************************************************************************)
(* Bags of timers.                                                         *)
(***************************************************************************)
RECURSIVE SumOver(_, _)
SumOver(S, bag) ==
    IF S = {} THEN 0
    ELSE LET x == CHOOSE y \in S : TRUE
         IN  bag[x] + SumOver(S \ {x}, bag)

\* the bag with every member t replaced by f[t]
BagMap(f, bag) ==
    [ r \in {f[t] : t \in DOMAIN bag} |->
        SumOver({t \in DOMAIN bag : f[t] = r}, bag) ]

One(t) == SetToBag({t})

(***************************************************************************)
(* The listeners.  st is what a dispatch has done so far.                  *)
(***************************************************************************)
\* callback.call(el, event): a TypeError when callback is no function
InvokeCallback(i, b, el, ev, st) ==
    IF Typeof(b.c.callback) = "function"
    THEN [st EXCEPT !.calls = Append(@, [b |-> i, fn |-> b.c.callback.fn,
                                         el |-> el, ev |-> ev])]
    ELSE [st EXCEPT !.threw = TRUE]

\* fault: onlyIf is not asked again when the callback is about to fire
fireCallback_noRecheck(i, b, el, ev, st) ==
    IF Typeof(b.c.callback) = "function"
    THEN InvokeCallback(i, b, el, ev, st)
    ELSE st

\* fault: the callback is called without looking at its type
fireCallback_noTypeCheck(i, b, el, ev, st) ==
    IF CallOnlyIf(b.c, el, enabled)
    THEN InvokeCallback(i, b, el, ev, st)
    ELSE st

fireCallback(i, b, el, ev, st) ==
    IF Typeof(b.c.callback) = "function" /\ CallOnlyIf(b.c, el, enabled)
    THEN InvokeCallback(i, b, el, ev, st)
    ELSE st

\* fault: the deferred action looks for the wrong class
timeoutHandler_checksTouched(el, cls) ==
    IF "touched" \in cls[el]
    THEN [cls EXCEPT ![el] = @ \cup {"touched"}]
    ELSE cls

\* fault: the deferred action adds touched without looking at touch-started
timeoutHandler_unconditional(el, cls) ==
    [cls EXCEPT ![el] = @ \cup {"touched"}]

\* the function given to window.setTimeout, run for element el
timeoutHandler(el, cls) ==
    IF "touch-started" \in cls[el]
    THEN [cls EXCEPT ![el] = @ \cup {"touched"}]
    ELSE cls

\* the action window.setTimeout defers: the element of the closure and the
\* ticks left; cur marks the ones the latest touchstart scheduled, dead the
\* ones whose touch has since been released or cancelled by a move (kept
\* only where EventObserved keeps it)
Timer(el, delay) == [el |-> el, left |-> delay, cur |-> TRUE, dead |-> FALSE]

\* fault: no deferred action is scheduled while one is pending on the element
touchstartHandler_dedup(i, b, this, st) ==
    IF CallOnlyIf(b.c, this, enabled)
    THEN [st EXCEPT !.classes[this] = @ \cup {"touch-started"},
                    !.timers = IF \E t \in DOMAIN @ : t.el = this THEN @
                               ELSE @ (+) One(Timer(this, DelayOf(b.c.touchDelay)))]
    ELSE st

\* fault: with a touchDelay of 0 touched is added in the listener itself
touchstartHandler_syncZero(i, b, this, st) ==
    IF CallOnlyIf(b.c, this, enabled)
    THEN IF DelayOf(b.c.touchDelay) = 0
         THEN [st EXCEPT !.classes[this] = @ \cup Flags]
         ELSE [st EXCEPT !.classes[this] = @ \cup {"touch-started"},
                         !.timers = @ (+) One(Timer(this, DelayOf(b.c.touchDelay)))]
    ELSE st

touchstartHandler(i, b, this, st) ==
    IF CallOnlyIf(b.c, this, enabled)
    THEN [st EXCEPT !.classes[this] = @ \cup {"touch-started"},
                    !.timers = @ (+) One(Timer(this, DelayOf(b.c.touchDelay)))]
    ELSE st

\* fault: the touchend listener does not look for touch-started
touchendHandler_noGuard(i, b, this, st) ==
    fireCallback(i, b, this, "touchend",
                 [st EXCEPT !.classes[this] = (@ \ {"touched"}) \ {"touch-started"}])

touchendHandler(i, b, this, st) ==
    IF "touch-started" \in st.classes[this]
    THEN fireCallback(i, b, this, "touchend",
                      [st EXCEPT !.classes[this] = (@ \ {"touched"}) \ {"touch-started"}])
    ELSE st

\* fault: the click listener of the touch path fires the callback as well
preventClickHandler_alsoFires(i, b, this, st) ==
    fireCallback(i, b, this, "click", [st EXCEPT !.prevented = TRUE])

preventClickHandler(i, b, this, st) == [st EXCEPT !.prevented = TRUE]

\* fault: a move removes touched and leaves touch-started
touchmoveHandler_keepsStarted(i, b, this, st) ==
    [st EXCEPT !.classes[this] = @ \ {"touched"}]

touchmoveHandler(i, b, this, st) ==
    [st EXCEPT !.classes[this] = (@ \ {"touched"}) \ {"touch-started"}]

\* fault: the fallback click does not ask onlyIf
fallbackClickHandler_noOnlyIf(i, b, this, st) ==
    InvokeCallback(i, b, this, "click", st)

fallbackClickHandler(i, b, this, st) ==
    IF CallOnlyIf(b.c, this, enabled)
    THEN InvokeCallback(i, b, this, "click", st)
    ELSE st

RunHandler(h, bs, st) ==
    CASE h.l = "touchstart" -> touchstartHandler(h.b, bs[h.b], h.this, st)
      [] h.l = "touchend" -> touchendHandler(h.b, bs[h.b], h.this, st)
      [] h.l = "preventClick" -> preventClickHandler(h.b, bs[h.b], h.this, st)
      [] h.l = "touchmove" -> touchmoveHandler(h.b, bs[h.b], h.this, st)
      [] h.l = "fallbackClick" -> fallbackClickHandler(h.b, bs[h.b], h.this, st)

(***************************************************************************)
(* this.on(type, selector, handler) and the dispatch of an event: at each  *)
(* element of the bubbling path that has listeners, the delegated ones run *)
(* first, for the matching elements from the target up, then the direct    *)
(* ones; within each, in the order they were bound.                        *)
(***************************************************************************)
\* fault: the selector is not passed on to this.on
Delegated_never(b) == FALSE

Delegated(b) == Typeof(b.c.selector) = "string"

\* the listener of binding b for events of this type, as a set (empty or one)
ListenerFor(b, type) == {l \in b.listeners : EventOf(l) = type}

\* entries for the wanted bindings, in the order they were bound
BindingsFrom(bs, type, wanted) ==
    LET Has(i) == i \in wanted /\ ListenerFor(bs[i], type) # {}
        sel == SelectSeq([i \in 1..Len(bs) |-> i], Has)
    IN  [k \in 1..Len(sel) |->
            [b |-> sel[k], l |-> CHOOSE l \in ListenerFor(bs[sel[k]], type) : TRUE]]

WithThis(entries, el) ==
    [k \in 1..Len(entries) |-> [b |-> entries[k].b, l |-> entries[k].l, this |-> el]]

RECURSIVE DelegatedAt(_, _, _, _)
\* the delegated listeners bound on E, for cur and its ancestors below E
DelegatedAt(cur, E, bs, type) ==
    IF cur = E \/ cur = Root THEN << >>
    ELSE LET wanted == {i \in DOMAIN bs :
                           /\ bs[i].bound = E /\ Delegated(bs[i])
                           /\ Matches(cur, bs[i].c.selector.s)}
         IN  WithThis(BindingsFrom(bs, type, wanted), cur)
             \o DelegatedAt(Parent(cur), E, bs, type)

DirectAt(E, bs, type) ==
    LET wanted == {i \in DOMAIN bs : bs[i].bound = E /\ ~Delegated(bs[i])}
    IN  WithThis(BindingsFrom(bs, type, wanted), E)

RECURSIVE QueueAlong(_, _, _, _)
QueueAlong(path, target, bs, type) ==
    IF path = << >> THEN << >>
    ELSE DelegatedAt(target, Head(path), bs, type)
         \o DirectAt(Head(path), bs, type)
         \o QueueAlong(Tail(path), target, bs, type)

HandlerQueue(type, target, bs) == QueueAlong(Path(target), target, bs, type)

RECURSIVE RunQueue(_, _, _)
\* an exception thrown by a listener ends the dispatch
RunQueue(q, bs, st) ==
    IF q = << >> \/ st.threw THEN st
    ELSE RunQueue(Tail(q), bs, RunHandler(Head(q), bs, st))

(***************************************************************************)
(* Observations kept beside the program's state.                           *)
(***************************************************************************)
InProgress(g, target) == g.phase \in {"started", "moved"} /\ g.target = target

\* the elements whose flags a dispatch changed
ChangedBy(st) ==
    {e \in Elements : st.classes[e] \cap Flags # classes[e] \cap Flags}

\* the touch sequence after an event: a touchstart opens one, a touchmove or
\* touchend on its target continues it, anything else ends the observation
GestAfter(type, target, st) ==
    CASE type = "touchstart" ->
            [ phase |-> "started", target |-> target, en |-> enabled,
              applied |-> {}, ran |-> {}, calls |-> st.calls, moved |-> FALSE,
              moveChanged |-> {}, threw |-> st.threw ]
      [] type = "touchmove" /\ InProgress(gest, target) ->
            [ gest EXCEPT !.phase = "moved", !.moved = TRUE,
                          !.calls = @ \o st.calls,
                          !.threw = @ \/ st.threw,
                          !.moveChanged = @ \cup ChangedBy(st) ]
      [] type = "touchend" /\ InProgress(gest, target) ->
            [ gest EXCEPT !.phase = "ended", !.calls = @ \o st.calls,
                          !.threw = @ \/ st.threw ]
      [] OTHER -> IdleGest

\* the invocations made by the touch sequence that ended on target just
\* before the event being dispatched
TappedBefore(target) ==
    IF gest.phase = "ended" /\ gest.target = target THEN Len(gest.calls) ELSE 0

Uncur(t) == [t EXCEPT !.cur = FALSE]

CountDown(t) == [t EXCEPT !.left = IF @ > 0 THEN @ - 1 ELSE 0]

\* the timers tm after a dispatch that took the classes from before to after:
\* a touchend or touchmove listener that removes touch-started from an element
\* ends the touches whose deferred actions are pending on it
Released(tm, before, after) ==
    BagMap([t \in DOMAIN tm |->
               IF "touch-started" \in before[t.el] \ after[t.el]
               THEN [t EXCEPT !.dead = TRUE] ELSE t], tm)

(***************************************************************************)
(* Actions.                                                                *)
(***************************************************************************)
Init ==
    /\ touchSupported \in BOOLEAN
    /\ bindings = << >>
    /\ classes = [e \in Elements |-> {}]
    /\ enabled \in BOOLEAN
    /\ timers = EmptyBag
    /\ last = Quiet
    /\ gest = IdleGest

\* $(e).tappable(options)
Tappable(e, options) ==
    /\ Len(bindings) < MaxBindings
    /\ bindings' = IF ParseThrows(options) THEN bindings
                   ELSE Append(bindings, Binding(e, options, touchSupported))
    /\ last' = [Quiet EXCEPT !.ev = "tappable", !.threw = ParseThrows(options)]
    /\ gest' = IdleGest
    /\ UNCHANGED <<touchSupported, classes, enabled, timers>>

\* the browser dispatches an event of this type on target.  Touch events come
\* in any order: nothing listens for touchcancel, so a touch the browser
\* cancels ends without a touchend, and a second finger may begin a touch
\* while the first is still down.
Event(type, target) ==
    LET pre == [ classes |-> classes,
                 timers |-> IF type = "touchstart"
                            THEN BagMap([t \in DOMAIN timers |-> Uncur(t)], timers)
                            ELSE timers,
                 calls |-> << >>, prevented |-> FALSE, threw |-> FALSE ]
        st == RunQueue(HandlerQueue(type, target, bindings), bindings, pre)
    IN  /\ BagCardinality(st.timers) <= MaxTimers
        /\ classes' = st.classes
        /\ timers' = st.timers
        /\ last' = IF type = "click"
                   THEN [ev |-> type, target |-> target, calls |-> st.calls,
                         prevented |-> st.prevented, threw |-> st.threw,
                         tapped |-> TappedBefore(target)]
                   ELSE [Quiet EXCEPT !.calls = st.calls, !.threw = st.threw]
        /\ gest' = GestAfter(type, target, st)
        /\ UNCHANGED <<touchSupported, bindings, enabled>>

\* the function given to window.setTimeout runs, its delay having passed
TimerFire(t) ==
    /\ BagIn(t, timers)
    /\ t.left = 0
    /\ timers' = timers (-) One(t)
    /\ classes' = timeoutHandler(t.el, classes)
    /\ gest' = IF gest.phase \in {"started", "moved"}
               THEN [gest EXCEPT
                       !.applied = IF "touched" \in timeoutHandler(t.el, classes)[t.el]
                                   THEN @ \cup {t.el} ELSE @,
                       !.ran = IF t.cur THEN @ \cup {t.el} ELSE @]
               ELSE gest
    /\ last' = Quiet
    /\ UNCHANGED <<touchSupported, bindings, enabled>>

\* a millisecond-scale unit of time passes
Tick ==
    /\ timers' = BagMap([t \in DOMAIN timers |-> CountDown(t)], timers)
    /\ last' = Quiet
    /\ UNCHANGED <<touchSupported, bindings, classes, enabled, gest>>

\* the page changes the flag the caller's onlyIf returns
ToggleEnabled ==
    /\ enabled' = ~enabled
    /\ last' = Quiet
    /\ gest' = IF gest.phase = "ended" THEN IdleGest ELSE gest
    /\ UNCHANGED <<touchSupported, bindings, classes, timers>>

(***************************************************************************)
(* Two containers of the same shape driven in lockstep: tappable is called *)
(* on the first with one options value and on the second with another, and *)
(* every event, deferred action and tick happens to both.                  *)
(***************************************************************************)
World1 == {"box", "a", "s"}

Twin(e) ==
    CASE e = "box" -> "box2"
      [] e = "a" -> "a2"
      [] e = "s" -> "s2"
      [] e = "box2" -> "box"
      [] e = "a2" -> "a"
      [] e = "s2" -> "s"

TwinTimer(t) == [t EXCEPT !.el = Twin(@)]

\* a bare callable, and the configuration records said to be equivalent to it
BarePairs ==
    { <<Fn("f"), Obj([callback |-> Fn("f")])>>,
      <<Fn("f"), Obj([callback |-> Fn("f"), cancelOnMove |-> Bool(TRUE),
                      touchDelay |-> Num(0), onlyIf |-> Fn("always")])>> }

\* options without a callable callback, and the same options with one
NoCallbackPairs ==
    { <<Undef, Fn("f")>>,
      <<Obj([callback |-> Str("f"), cancelOnMove |-> Bool(FALSE),
             touchDelay |-> Num(LongDelay), onlyIf |-> Fn("isEnabled")]),
        Obj([callback |-> Fn("f"), cancelOnMove |-> Bool(FALSE),
             touchDelay |-> Num(LongDelay), onlyIf |-> Fn("isEnabled")])>>,
      <<Obj([selector |-> Str("a.test"), onlyIf |-> Fn("isEnabled")]),
        Obj([callback |-> Fn("f"), selector |-> Str("a.test"),
             onlyIf |-> Fn("isEnabled")])>> }

\* $("box").tappable(pair[1]); $("box2").tappable(pair[2])
TwinTappable(pair) ==
    /\ Len(bindings) + 2 <= 2 * MaxBindings
    /\ bindings' = bindings \o << Binding("box", pair[1], touchSupported),
                                  Binding("box2", pair[2], touchSupported) >>
    /\ last' = [Quiet EXCEPT !.ev = "tappable"]
    /\ UNCHANGED <<touchSupported, classes, enabled, timers, gest>>

\* the same event on target and on its twin
TwinEvent(type, target) ==
    LET pre == [ classes |-> classes,
                 timers |-> IF type = "touchstart"
                            THEN BagMap([t \in DOMAIN timers |-> Uncur(t)], timers)
                            ELSE timers,
                 calls |-> << >>, prevented |-> FALSE, threw |-> FALSE ]
        st1 == RunQueue(HandlerQueue(type, target, bindings), bindings, pre)
        st2 == RunQueue(HandlerQueue(type, Twin(target), bindings), bindings,
                        [st1 EXCEPT !.threw = FALSE])
    IN  /\ BagCardinality(st2.timers) <= 2 * MaxTimers
        /\ classes' = st2.classes
        /\ timers' = st2.timers
        /\ last' = [ev |-> type, target |-> target, calls |-> st2.calls,
                    prevented |-> st2.prevented,
                    threw |-> st1.threw \/ st2.threw,
                    tapped |-> 0]
        /\ UNCHANGED <<touchSupported, bindings, enabled, gest>>

\* a deferred action of the first container runs, and its twin if there is one
TwinTimerFire(t) ==
    /\ BagIn(t, timers)
    /\ t.el \in World1
    /\ t.left = 0
    /\ IF BagIn(TwinTimer(t), timers)
       THEN /\ timers' = (timers (-) One(t)) (-) One(TwinTimer(t))
            /\ classes' = timeoutHandler(Twin(t.el), timeoutHandler(t.el, classes))
       ELSE /\ timers' = timers (-) One(t)
            /\ classes' = timeoutHandler(t.el, classes)
    /\ last' = Quiet
    /\ UNCHANGED <<touchSupported, bindings, enabled, gest>>

\* what the scripts of a page that binds one element more than once pass
SharedInputs ==
    { Fn("f"),
      Obj([callback |-> Fn("g"), touchDelay |-> Num(LongDelay),
           onlyIf |-> Fn("isEnabled")]),
      Obj([callback |-> Fn("h"), cancelOnMove |-> Bool(FALSE)]) }

\* $(e).tappable(options), on a page where up to MaxShared calls are made
TappableShared(e, options) ==
    /\ Len(bindings) < MaxShared
    /\ bindings' = Append(bindings, Binding(e, options, touchSupported))
    /\ last' = [Quiet EXCEPT !.ev = "tappable"]
    /\ gest' = IdleGest
    /\ UNCHANGED <<touchSupported, classes, enabled, timers>>

\* the dispatch of Event, with the release of a touch noted on the deferred
\* actions it leaves behind
EventObserved(type, target) ==
    LET pre == [ classes |-> classes,
                 timers |-> IF type = "touchstart"
                            THEN BagMap([t \in DOMAIN timers |-> Uncur(t)], timers)
                            ELSE timers,
                 calls |-> << >>, prevented |-> FALSE, threw |-> FALSE ]
        st == RunQueue(HandlerQueue(type, target, bindings), bindings, pre)
    IN  /\ BagCardinality(st.timers) <= MaxTimers
        /\ classes' = st.classes
        /\ timers' = Released(st.timers, classes, st.classes)
        /\ last' = IF type = "click"
                   THEN [ev |-> type, target |-> target, calls |-> st.calls,
                         prevented |-> st.prevented, threw |-> st.threw,
                         tapped |-> TappedBefore(target)]
                   ELSE [Quiet EXCEPT !.calls = st.calls, !.threw = st.threw]
        /\ gest' = GestAfter(type, target, st)
        /\ UNCHANGED <<touchSupported, bindings, enabled>>

Next ==
    \/ \E e \in BoundElements, o \in OptionInputs : Tappable(e, o)
    \/ \E type \in EventTypes, target \in Targets : Event(type, target)
    \/ \E t \in DOMAIN timers : TimerFire(t)
    \/ Tick
    \/ ToggleEnabled

Spec == Init /\ [][Next]_vars

NextShared ==
    \/ \E e \in BoundElements, o \in SharedInputs : TappableShared(e, o)
    \/ \E type \in EventTypes, target \in Targets : EventObserved(type, target)
    \/ \E t \in DOMAIN timers : TimerFire(t)
    \/ Tick
    \/ ToggleEnabled

\* a page whose scripts call tappable more than once on one element
SpecShared == Init /\ [][NextShared]_vars

NextBare ==
    \/ \E pair \in BarePairs : TwinTappable(pair)
    \/ \E type \in EventTypes, target \in Targets : TwinEvent(type, target)
    \/ \E t \in DOMAIN timers : TwinTimerFire(t)
    \/ Tick
    \/ ToggleEnabled

\* a bare callable beside the configuration record {callback: f}
SpecBare == Init /\ [][NextBare]_vars

NextNoCallback ==
    \/ \E pair \in NoCallbackPairs : TwinTappable(pair)
    \/ \E type \in EventTypes, target \in Targets : TwinEvent(type, target)
    \/ \E t \in DOMAIN timers : TwinTimerFire(t)
    \/ Tick
    \/ ToggleEnabled

\* options without a callable callback beside the same options with one
SpecNoCallback == Init /\ [][NextNoCallback]_vars

(***************************************************************************)
(* Vocabulary of the properties.                                           *)
(***************************************************************************)
\* the elements binding i's listeners for this event type run on (as this)
\* when the event is dispatched on target
Handles(i, type, target) ==
    LET q == HandlerQueue(type, target, bindings)
    IN  {q[k].this : k \in {n \in DOMAIN q : q[n].b = i}}

AnyHandles(i, target) == UNION {Handles(i, type, target) : type \in EventTypes}

\* binding i is the only one whose listeners run on el in the observed sequence
Sole(i, el) ==
    \A j \in DOMAIN bindings : j # i => el \notin AnyHandles(j, gest.target)

Callable(i) == Typeof(bindings[i].c.callback) = "function"

CancelsOnMove(i) == Truthy(bindings[i].c.cancelOnMove)

HasSelector(i) == Typeof(bindings[i].c.selector) = "string"

\* onlyIf of binding i, for a value of the page's flag
Passes(i, en) == bindings[i].c.onlyIf = Fn("always") \/ en

\* the invocations of binding i's callback among calls
CallsBy(i, calls) == SelectSeq(calls, LAMBDA c : c.b = i)

OneCall(i, el, ev) ==
    << [b |-> i, fn |-> bindings[i].c.callback.fn, el |-> el, ev |-> ev] >>

Seen == gest.phase \in {"started", "moved", "ended"}

(***************************************************************************)
(* C1.  On a touch-capable runtime, for every binding with a truthy        *)
(* cancelOnMove, a touch-begin followed by touch-move(s) and a touch-end   *)
(* on the same element never invokes the binding's callback, and after the *)
(* touch-end the element carries neither touch-started nor touched,        *)
(* whenever the deferred actions fire.                                     *)
(***************************************************************************)
C1_MoveCancels ==
    (touchSupported /\ gest.phase = "ended" /\ gest.moved) =>
        \A i \in DOMAIN bindings :
            CancelsOnMove(i) =>
                /\ CallsBy(i, gest.calls) = << >>
                /\ \A el \in AnyHandles(i, gest.target) : classes[el] \cap Flags = {}

\* such a sequence, with a callable callback, onlyIf passing throughout, and
\* touched applied by a deferred action before the move
C1_Witness ==
    /\ touchSupported /\ gest.phase = "ended" /\ gest.moved
    /\ \E i \in DOMAIN bindings :
          /\ CancelsOnMove(i) /\ Callable(i)
          /\ Passes(i, gest.en) /\ Passes(i, enabled)
          /\ AnyHandles(i, gest.target) \cap gest.applied # {}

(***************************************************************************)
(* C2.  On a touch-capable runtime, for a binding with a falsy             *)
(* cancelOnMove, a callable callback and onlyIf passing, that is the only  *)
(* binding on its element: a touch-begin followed by any number of         *)
(* touch-moves and a touch-end invokes the callback exactly once, at the   *)
(* touch-end, and the touch-moves leave the element's flags unchanged.     *)
(***************************************************************************)
C2_NoCancelFiresOnce ==
    (touchSupported /\ Seen) =>
        \A i \in DOMAIN bindings :
            (~CancelsOnMove(i) /\ Callable(i) /\ Passes(i, gest.en)) =>
                \A el \in AnyHandles(i, gest.target) :
                    Sole(i, el) =>
                        /\ el \notin gest.moveChanged
                        /\ gest.phase # "ended" => CallsBy(i, gest.calls) = << >>
                        /\ (gest.phase = "ended" /\ Passes(i, enabled)) =>
                              CallsBy(i, gest.calls) = OneCall(i, el, "touchend")

C2_Witness ==
    /\ touchSupported /\ gest.phase = "ended" /\ gest.moved
    /\ \E i \in DOMAIN bindings :
          /\ ~CancelsOnMove(i) /\ Callable(i)
          /\ Passes(i, gest.en) /\ Passes(i, enabled)
          /\ \E el \in AnyHandles(i, gest.target) :
                Sole(i, el) /\ CallsBy(i, gest.calls) = OneCall(i, el, "touchend")

(***************************************************************************)
(* C3.  For a binding (callable callback, onlyIf passing, the only binding *)
(* on its element, the touch not move-cancelled) and any prior history on  *)
(* the element: a touch-begin followed by a touch-end before touchDelay    *)
(* has elapsed since that touch-begin invokes the callback exactly once,   *)
(* at the touch-end, and touched is never applied to the element between   *)
(* that touch-begin and that touch-end.                                    *)
(***************************************************************************)
\* the deferred action the latest touch-begin scheduled on el is not yet due
Early(el) ==
    \E t \in BagToSet(timers) : t.el = el /\ t.cur /\ t.left > 0

C3_QuickTapNeverTouched ==
    (touchSupported /\ gest.phase = "ended") =>
        \A i \in DOMAIN bindings :
            ( /\ Callable(i) /\ Passes(i, gest.en) /\ Passes(i, enabled)
              /\ ~(gest.moved /\ CancelsOnMove(i)) ) =>
                \A el \in AnyHandles(i, gest.target) :
                    (Sole(i, el) /\ Early(el)) =>
                        /\ CallsBy(i, gest.calls) = OneCall(i, el, "touchend")
                        /\ el \notin gest.applied

(***************************************************************************)
(* C4.  For a binding that is the only one on its element: if a            *)
(* touch-begin passes onlyIf and the deferred action it scheduled runs     *)
(* while the touch is neither released nor move-cancelled, then touched is *)
(* applied to the element before the touch-end.                            *)
(***************************************************************************)
C4_LongTapTouched ==
    (touchSupported /\ Seen) =>
        \A i \in DOMAIN bindings :
            (Passes(i, gest.en) /\ ~(gest.moved /\ CancelsOnMove(i))) =>
                \A el \in AnyHandles(i, gest.target) :
                    (Sole(i, el) /\ el \in gest.ran) =>
                        /\ el \in gest.applied
                        /\ gest.phase # "ended" => "touched" \in classes[el]

\* a touch held past a non-zero touchDelay, its deferred action run
C4_Witness ==
    /\ touchSupported /\ gest.phase = "started"
    /\ \E i \in DOMAIN bindings :
          /\ DelayOf(bindings[i].c.touchDelay) = LongDelay
          /\ Passes(i, gest.en)
          /\ \E el \in AnyHandles(i, gest.target) :
                Sole(i, el) /\ el \in gest.ran /\ "touched" \in classes[el]

(***************************************************************************)
(* C5.  For a binding (the only one on its element) whose onlyIf returns   *)
(* false at touch-begin: during that touch sequence (touch-begin, optional *)
(* moves, touch-end) touched is never applied, and the callback is never   *)
(* invoked, even if onlyIf returns true by the time of the touch-end.      *)
(***************************************************************************)
C5_OnlyIfFalseAtBegin ==
    (touchSupported /\ Seen) =>
        \A i \in DOMAIN bindings :
            ~Passes(i, gest.en) =>
                \A el \in AnyHandles(i, gest.target) :
                    Sole(i, el) =>
                        /\ CallsBy(i, gest.calls) = << >>
                        /\ el \notin gest.applied

(***************************************************************************)
(* C6.  A callback is invoked only when it is callable and onlyIf is       *)
(* truthy at the moment of the invocation; on the touch path, when onlyIf  *)
(* passed at touch-begin and is false at touch-end, the touch-end clears   *)
(* both flags and does not invoke the callback.                            *)
(***************************************************************************)
\* (a finished sequence and a click are forgotten once the page's flag
\* changes, so enabled is the value the invocation saw)
C6_RecheckedAtFire ==
    /\ \A k \in DOMAIN gest.calls :
          Callable(gest.calls[k].b) /\ Passes(gest.calls[k].b, enabled)
    /\ \A k \in DOMAIN last.calls :
          Callable(last.calls[k].b) /\ Passes(last.calls[k].b, enabled)
    /\ (touchSupported /\ gest.phase = "ended") =>
          \A i \in DOMAIN bindings :
              (Passes(i, gest.en) /\ ~Passes(i, enabled)) =>
                  /\ CallsBy(i, gest.calls) = << >>
                  /\ \A el \in AnyHandles(i, gest.target) : classes[el] \cap Flags = {}

\* onlyIf passed at touch-begin and fails at touch-end, for a callable callback
\* on a touch that was not move-cancelled
C6_Witness ==
    /\ touchSupported /\ gest.phase = "ended" /\ ~gest.moved
    /\ \E i \in DOMAIN bindings :
          /\ Callable(i) /\ Passes(i, gest.en) /\ ~Passes(i, enabled)
          /\ AnyHandles(i, gest.target) # {}

(***************************************************************************)
(* C7.  On a runtime without touch support, a click on a bound element     *)
(* invokes the callback exactly once if onlyIf passes and not at all       *)
(* otherwise, and no event ever sets touch-started or touched.             *)
(***************************************************************************)
C7_FallbackClick ==
    ~touchSupported =>
        /\ \A e \in Elements : classes[e] \cap Flags = {}
        /\ timers = EmptyBag
        /\ gest.calls = << >>
        /\ last.ev = "click" =>
              \A i \in DOMAIN bindings :
                  \A el \in Handles(i, "click", last.target) :
                      CallsBy(i, last.calls) =
                          IF Passes(i, enabled) THEN OneCall(i, el, "click") ELSE << >>

C7_Witness ==
    /\ ~touchSupported /\ last.ev = "click"
    /\ \E i \in DOMAIN bindings :
          /\ Passes(i, enabled) /\ bindings[i].c.onlyIf # Fn("always")
          /\ \E el \in Handles(i, "click", last.target) :
                last.calls = OneCall(i, el, "click")

(***************************************************************************)
(* C8.  For a binding with a delegated selector on a container: an event   *)
(* on a descendant that does not match the selector never invokes the      *)
(* callback and (no other kind of binding being there) changes no          *)
(* element's flags; a completed tap on a matching descendant invokes the   *)
(* callback exactly once, with that descendant as the element.             *)
(***************************************************************************)
\* binding i is delegated from a proper ancestor of target, which matches
DelegatedTo(i, target) ==
    /\ HasSelector(i)
    /\ \E k \in DOMAIN Path(Parent(target)) : Path(Parent(target))[k] = bindings[i].bound
    /\ Matches(target, bindings[i].c.selector.s)

C8_Tap ==
    /\ (touchSupported /\ gest.phase = "ended") =>
          \A i \in DOMAIN bindings :
              ( /\ DelegatedTo(i, gest.target) /\ Callable(i)
                /\ Passes(i, gest.en) /\ Passes(i, enabled)
                /\ ~(gest.moved /\ CancelsOnMove(i))
                /\ Sole(i, gest.target) ) =>
                  CallsBy(i, gest.calls) = OneCall(i, gest.target, "touchend")
    /\ (~touchSupported /\ last.ev = "click") =>
          \A i \in DOMAIN bindings :
              (DelegatedTo(i, last.target) /\ Callable(i) /\ Passes(i, enabled)) =>
                  CallsBy(i, last.calls) = OneCall(i, last.target, "click")

\* what a step leaves when no listener of a binding whose selector target does
\* not match has run
Missed(target) ==
    /\ \A i \in DOMAIN bindings :
          (HasSelector(i) /\ ~Matches(target, bindings[i].c.selector.s)) =>
              /\ CallsBy(i, gest'.calls) = << >>
              /\ CallsBy(i, last'.calls) = << >>
    /\ (\A i \in DOMAIN bindings :
          HasSelector(i) /\ ~Matches(target, bindings[i].c.selector.s)) =>
              classes' = classes

\* every step that is an event on target leaves that
C8_Miss ==
    \A target \in Targets :
        Missed(target) \/ \A type \in EventTypes : ~Event(type, target)

C8_Delegation == [](C8_Tap) /\ [][C8_Miss]_vars

\* a completed tap on the matching descendant of a delegating container
C8_Witness ==
    /\ touchSupported /\ gest.phase = "ended" /\ gest.target = "a"
    /\ \E i \in DOMAIN bindings :
          /\ DelegatedTo(i, "a")
          /\ gest.calls = OneCall(i, "a", "touchend")

(***************************************************************************)
(* Vocabulary of the lockstep specifications.                              *)
(***************************************************************************)
\* the invocations made on the elements of W, as (function, element, event),
\* the elements of the second container named by their twins
CallsIn(W, calls) ==
    LET sel == SelectSeq(calls, LAMBDA c : c.el \in W)
    IN  [k \in DOMAIN sel |->
            [fn |-> sel[k].fn, ev |-> sel[k].ev,
             el |-> IF sel[k].el \in World1 THEN sel[k].el ELSE Twin(sel[k].el)]]

\* both containers carry the same touch flags and the same pending actions
SameFlags ==
    /\ \A e \in World1 : classes[e] \cap Flags = classes[Twin(e)] \cap Flags
    /\ BagMap([t \in DOMAIN timers |-> TwinTimer(t)], timers) = timers

C10_BareCallable ==
    /\ SameFlags
    /\ CallsIn(World1, last.calls) = CallsIn(Elements \ World1, last.calls)
    /\ ~last.threw
    /\ \A i \in DOMAIN bindings :
          bindings[i].bound = "box" =>
              /\ bindings[i].c = [Defaults EXCEPT !.callback = Fn("f")]
              /\ bindings[i].listeners = bindings[i + 1].listeners

\* a tap that invoked the callback in both containers
C10_Witness ==
    /\ touchSupported /\ last.ev = "touchend"
    /\ Len(CallsIn(World1, last.calls)) = 1
    /\ Len(CallsIn(Elements \ World1, last.calls)) = 1

(***************************************************************************)
(* C11.  In every reachable state, an element that carries touched has a   *)
(* touch in progress that began at least touchDelay ago: touched is never  *)
(* on an element while the deferred action of the latest touch-begin on it *)
(* is not yet due.                                                         *)
(***************************************************************************)
C11_TouchedAfterDelay ==
    touchSupported =>
        \A el \in Elements : "touched" \in classes[el] => ~Early(el)

(***************************************************************************)
(* C12.  A deferred action whose touch has been released (touch-end) or    *)
(* cancelled (a cancelling touch-move) is a no-op when it fires: it        *)
(* changes no flag and invokes no callback, also when a later touch-begin  *)
(* on the element has occurred in the meantime.                            *)
(***************************************************************************)
C12_StaleNoOp ==
    [][ (classes' = classes /\ last'.calls = << >>)
        \/ \A t \in DOMAIN timers : t.dead => ~TimerFire(t) ]_vars

(***************************************************************************)
(* C13.  A touch-end on an element that does not carry touch-started       *)
(* changes no flag of it and invokes no callback on it; so every callback  *)
(* invocation on the touch path is made by a touch-end, from a state in    *)
(* which the element carries touch-started, and leaves both flags cleared. *)
(***************************************************************************)
\* what a touch-end leaves on the elements that did not carry touch-started
Untouched ==
    \A el \in Elements :
        "touch-started" \notin classes[el] =>
            /\ classes'[el] = classes[el]
            /\ \A k \in DOMAIN last'.calls : last'.calls[k].el # el

C13_Step ==
    /\ touchSupported =>
          \A k \in DOMAIN last'.calls :
              /\ last'.calls[k].ev = "touchend"
              /\ "touch-started" \in classes[last'.calls[k].el]
              /\ classes'[last'.calls[k].el] \cap Flags = {}
    /\ \/ gest'.phase \notin {"ended", "idle"}
       \/ Untouched
       \/ \A target \in Targets : ~Event("touchend", target)

C13_TouchEndGuard == [][C13_Step]_vars

\* a touch-end on an element whose touch-started a move had removed: nothing
\* invoked, though the callback is callable and onlyIf passes
C13_Witness ==
    /\ touchSupported /\ gest.phase = "ended" /\ gest.moved
    /\ gest.calls = << >> /\ last.calls = << >>
    /\ \E i \in DOMAIN bindings :
          /\ CancelsOnMove(i) /\ Callable(i) /\ Passes(i, enabled)
          /\ \E el \in Handles(i, "touchend", gest.target) :
                Sole(i, el) /\ classes[el] \cap Flags = {}

(***************************************************************************)
(* C14.  In every reachable state, whatever the interleaving of            *)
(* touch-begins, touch-moves, touch-ends, clicks and deferred actions and  *)
(* however many bindings the element has, touched on an element implies    *)
(* touch-started on it; and a step that removes one of the two flags       *)
(* leaves neither.                                                         *)
(***************************************************************************)
TouchedOnlyStarted ==
    \A el \in Elements :
        "touched" \in classes[el] => "touch-started" \in classes[el]

RemovedTogether ==
    \A el \in Elements :
        (classes[el] \ classes'[el]) \cap Flags # {} => classes'[el] \cap Flags = {}

C14_TouchedImpliesStarted == [](TouchedOnlyStarted) /\ [][RemovedTogether]_vars

\* an element bound more than once that carries touched, a touch-begin having
\* followed the one whose deferred action is still pending
C14_Witness ==
    /\ Len(bindings) > 1
    /\ \E el \in Elements :
          /\ Flags \subseteq classes[el]
          /\ \E t \in DOMAIN timers : t.el = el /\ ~t.cur

(***************************************************************************)
(* C15.  On a touch-capable runtime, when two bindings, each with its own  *)
(* callable callback and a passing onlyIf, are attached to the same        *)
(* element, a completed tap that no move cancelled (touch-begin, then      *)
(* touch-end) invokes the callback of each binding exactly once.           *)
(***************************************************************************)
\* binding i takes part in the tap observed: callable, onlyIf passing at the
\* touch-begin and at the touch-end
TakesPart(i) == Callable(i) /\ Passes(i, gest.en) /\ Passes(i, enabled)

C15_EachFiresOnce ==
    (touchSupported /\ gest.phase = "ended" /\ ~gest.moved) =>
        \A i, j \in DOMAIN bindings :
            ( /\ i # j /\ bindings[i].c.callback # bindings[j].c.callback
              /\ TakesPart(i) /\ TakesPart(j) ) =>
                \A el \in AnyHandles(i, gest.target) \cap AnyHandles(j, gest.target) :
                    /\ CallsBy(i, gest.calls) = OneCall(i, el, "touchend")
                    /\ CallsBy(j, gest.calls) = OneCall(j, el, "touchend")

(***************************************************************************)
(* C16.  Every touch-begin that passes onlyIf schedules its own one-shot   *)
(* deferred action, with no deduplication: each adds one to the deferred   *)
(* actions pending on the element, so n of them with none fired leave n    *)
(* pending; and each deferred action, when it fires, sets touched if and   *)
(* only if the element carries touch-started at that instant, whichever    *)
(* touch-begin scheduled it, and is gone.                                  *)
(***************************************************************************)
\* how many deferred actions are pending on el
PendingOn(tm, el) == SumOver({t \in DOMAIN tm : t.el = el}, tm)

\* how many touchstart listeners a touch-begin on target runs on el with
\* onlyIf passing
Scheduling(target, el) ==
    LET q == HandlerQueue("touchstart", target, bindings)
    IN  Cardinality({k \in DOMAIN q :
                        /\ q[k].this = el
                        /\ CallOnlyIf(bindings[q[k].b].c, el, enabled)})

OneMoreEach(target) ==
    \A el \in Elements :
        PendingOn(timers', el) = PendingOn(timers, el) + Scheduling(target, el)

FiredOnce(t) ==
    /\ timers' = timers (-) One(t)
    /\ classes' = [classes EXCEPT ![t.el] =
                      IF "touch-started" \in @ THEN @ \cup {"touched"} ELSE @]

\* (only a touch-begin on target leaves a touch sequence just begun on it)
C16_Step ==
    /\ \A target \in Targets :
          \/ gest'.phase # "started" \/ gest'.target # target
          \/ OneMoreEach(target)
          \/ ~Event("touchstart", target)
    /\ \A t \in DOMAIN timers : FiredOnce(t) \/ ~TimerFire(t)

C16_NoDeduplication == [][C16_Step]_vars

\* two touch-begins on an element, neither deferred action fired yet
C16_Witness ==
    /\ touchSupported /\ gest.phase = "started"
    /\ \E el \in Elements :
          /\ PendingOn(timers, el) = 2
          /\ "touch-started" \in classes[el]
          /\ "touched" \notin classes[el]

(***************************************************************************)
(* C17.  With a touchDelay of 0 the touch-begin listener itself does not   *)
(* set touched: right after a touch-begin (onlyIf passing) on an element   *)
(* that did not carry touched, the element carries touch-started and not   *)
(* touched, and the deferred action is pending; touched is applied only by *)
(* a later step of its own, the deferred action firing, so that a          *)
(* touch-end or touch-move can come first.                                 *)
(***************************************************************************)
\* what a touch-begin on target leaves on the elements its zero-delay
\* listeners ran on
ZeroDeferred(target) ==
    LET q == HandlerQueue("touchstart", target, bindings)
    IN  \A k \in DOMAIN q :
            ( /\ DelayOf(bindings[q[k].b].c.touchDelay) = 0
              /\ CallOnlyIf(bindings[q[k].b].c, q[k].this, enabled) ) =>
                /\ "touch-started" \in classes'[q[k].this]
                /\ "touched" \in classes'[q[k].this] => "touched" \in classes[q[k].this]
                /\ \E t \in DOMAIN timers' : t.el = q[k].this /\ t.left = 0 /\ t.cur

C17_Step ==
    /\ (\E el \in Elements : "touched" \in classes'[el] \ classes[el]) =>
          BagCardinality(timers') = BagCardinality(timers) - 1
    /\ \A target \in Targets :
          \/ gest'.phase # "started" \/ gest'.target # target
          \/ ZeroDeferred(target)
          \/ ~Event("touchstart", target)

C17_ZeroDelayDeferred == [][C17_Step]_vars

\* a tap on a zero-delay binding that ended before its deferred action ran:
\* touched never applied, the action still pending
C17_Witness ==
    /\ touchSupported /\ gest.phase = "ended"
    /\ \E i \in DOMAIN bindings :
          /\ Callable(i) /\ DelayOf(bindings[i].c.touchDelay) = 0
          /\ \E el \in Handles(i, "touchstart", gest.target) :
                /\ gest.calls = OneCall(i, el, "touchend")
                /\ el \notin gest.applied
                /\ classes[el] \cap Flags = {}
                /\ \E t \in DOMAIN timers : t.el = el /\ t.left = 0 /\ t.cur

(***************************************************************************)
(* C18.  On a touch-capable runtime, every click on the bound scope has    *)
(* its default action suppressed, invokes no callback and changes neither  *)
(* touch-started nor touched; so a tap followed by the browser's synthetic *)
(* click makes one callback invocation in all.                             *)
(***************************************************************************)
C18_Click ==
    (touchSupported /\ last.ev = "click") =>
        /\ last.calls = << >>
        /\ (\E i \in DOMAIN bindings : Handles(i, "click", last.target) # {}) =>
              last.prevented

C18_Frame ==
    \/ last'.ev # "click"
    \/ classes' = classes
    \/ ~touchSupported
    \/ \A target \in Targets : ~Event("click", target)

C18_ClickSuppressed == [](C18_Click) /\ [][C18_Frame]_vars

\* a tap that invoked the callback once, then the click on the same target: one
\* invocation in all
C18_Witness ==
    /\ touchSupported /\ last.ev = "click" /\ last.prevented
    /\ last.tapped + Len(last.calls) = 1

=============================================================================
